---------------------------- MODULE Spec2Model ----------------------------
(***************************************************************************)
(* Flappy Birb: the tick/jump reducers (state.ts, util.ts), the schedule   *)
(* parser (util.ts) and the RxJS pipeline that folds them (main.ts).       *)
(*                                                                         *)
(* Numbers.  The code computes on IEEE doubles.  Vertical quantities       *)
(* (bird position and velocity, gapY, gapHeight) are kept here in fixed    *)
(* point, as integers counting 1/Unit of a pixel; horizontal quantities    *)
(* are whole pixels (600 - 3k, 180, 21, 50 in the code).  A knockback,     *)
(* 5 + 5*hash/(m-1), is rounded down to that grid; the hash itself is      *)
(* computed exactly, on two 16-bit limbs so that no product leaves 31 bits.*)
(*                                                                         *)
(* Time.  interval(16) fires at 16, 32, ...; timer(p.time) fires once at   *)
(* p.time.  The timers are taken to fire at their nominal due times, in    *)
(* due-time order; the order of a spawn timer and a firing of the interval *)
(* due at the same instant is left open (see spawnDue).  Key presses are   *)
(* explored on a grid: after every JumpEvery-th tick of a session.         *)
(*                                                                         *)
(* Specifications.  Spec is the page (mousedown, sessions, takeWhile);     *)
(* SpecState is the exported state$ alone; SpecNaN is the page given a     *)
(* schedule with a field that is not a number; SpecPath is the page with   *)
(* the position recorder of its sessions in the state, and with it the     *)
(* ghosts recorded and their replay (the recorder feeds nothing back into  *)
(* a session, so the other specifications leave it out); SpecGhost is one  *)
(* subscription of createGhost$; SpecReducer applies tick and jump to      *)
(* States drawn from a bounded set; SpecSession is one session with its    *)
(* timers firing (weak fairness), for what a session eventually does.      *)
(***************************************************************************)
EXTENDS Integers, Sequences, FiniteSets, TLC

(* ------------------------------ types.ts ------------------------------ *)

\* fixed-point resolution of the vertical axis: 1 pixel = Unit
Unit == 2 * 5

CANVAS_WIDTH == 600
CANVAS_HEIGHT == 400
BIRB_WIDTH == 42
PIPE_WIDTH == 50
TICK_RATE_MS == 16
\* Constants.GRAVITY = 0.4, in fixed point
GRAVITY == (4 * Unit) \div 10
PIPE_SPEED == 3
\* Constants.STRENGTH = -7, in fixed point
STRENGTH == (-7) * Unit
SEED == 1234
InitialLives == 3

initialBird ==
    [verticalPosition |-> (CANVAS_HEIGHT * Unit) \div 2, verticalVelocity |-> 0]

initialState ==
    [bird |-> initialBird,
     pipes |-> << >>,
     score |-> 0,
     lives |-> InitialLives,
     gameEnd |-> FALSE,
     gameTime |-> 0,
     gameStarted |-> FALSE]

(* ------------------------- util.ts: RNG ------------------------------- *)

\* RNG.m = 2^31, RNG.a and RNG.c; Limb = 2^16 splits a 31-bit number
RNG_a == 1103515245
RNG_c == 12345
Limb == 65536
HalfLimb == Limb \div 2

\* mutant of hash: the remainder modulo m is not taken
hashWithoutModulus(n) ==
    LET low == (RNG_a % Limb) * n + Unit * RNG_c
        high == (RNG_a \div Limb) * n + (low \div Limb)
    IN  [neg |-> FALSE, hi |-> high, lo |-> low % Limb]

\* RNG.hash(seed) = (a * seed + c) % m for the real number seed = n / Unit.
\* The result h is returned as the integer Unit * |h| = hi * 2^16 + lo with
\* its sign (JavaScript's % takes the sign of the dividend).
hash(n) ==
    LET neg == n < 0
        an == IF neg THEN -n ELSE n
        cc == IF neg THEN -(Unit * RNG_c) ELSE Unit * RNG_c
        low == (RNG_a % Limb) * an + cc
        high == (RNG_a \div Limb) * an + (low \div Limb)
    IN  [neg |-> neg /\ (high % (Unit * HalfLimb) # 0 \/ low % Limb # 0),
         hi |-> high % (Unit * HalfLimb),
         lo |-> low % Limb]

\* Unit * 5 * ((RNG.scale(h) + 1) / 2) = 5 * (Unit * h) / (m - 1), rounded
\* down to the grid.  With T = 5 * (hi * 2^16 + lo): q0 = T \div 2^31 and
\* T \div (2^31 - 1) = (T + q0 + 1) \div 2^31.
scale5(h) ==
    LET q0 == (5 * h.hi + (5 * h.lo) \div Limb) \div HalfLimb
        q == (5 * h.hi + (5 * h.lo + q0 + 1) \div Limb) \div HalfLimb
        exact == (5 * h.lo + q) % Limb = 0
                 /\ (5 * h.hi + (5 * h.lo + q) \div Limb) % HalfLimb = 0
    IN  IF h.neg THEN -(IF exact THEN q ELSE q + 1) ELSE q

createRandomVelocity(velocity, hitTop, hitBottom, hasCollision) ==
    LET h == hash(SEED * Unit + velocity)
        scaled == scale5(h)
    IN  IF hasCollision
        THEN IF hitTop THEN 5 * Unit + scaled
             ELSE IF hitBottom THEN (-10) * Unit + scaled
             ELSE 0
        ELSE 0

(* ---------------------- util.ts: pipe processing ---------------------- *)

\* Number(field) of a field that is not a number, and whatever is computed
\* from it: a value no computation on the grid produces.  Every comparison
\* with it is false.
NaN == -999999

isNaN(x) == x = NaN

gt(x, y) == ~isNaN(x) /\ ~isNaN(y) /\ x > y

lt(x, y) == ~isNaN(x) /\ ~isNaN(y) /\ x < y

ge(x, y) == ~isNaN(x) /\ ~isNaN(y) /\ x >= y

\* x * k / d for the number x of a field of a record
field(x, k, d) == IF isNaN(x) THEN NaN ELSE (x * k) \div d

\* the bird is horizontally inside the pipe range
inXRange(pipe, birdX) ==
    /\ birdX + BIRB_WIDTH \div 2 > pipe.horizontalPosition
    /\ birdX - BIRB_WIDTH \div 2 < pipe.horizontalPosition + PIPE_WIDTH

\* mutant of inYGap: a gap that is not a number lets the bird through
inYGapOrNaN(pipe, birdPosition) ==
    \/ isNaN(pipe.gapY)
    \/ isNaN(pipe.gapHeight)
    \/ /\ 2 * birdPosition > 2 * pipe.gapY - pipe.gapHeight
       /\ 2 * birdPosition < 2 * pipe.gapY + pipe.gapHeight

\* the bird is vertically inside the gap.  gapHeight / 2 may fall off the
\* grid, so both sides of each comparison are doubled.
inYGap(pipe, birdPosition) ==
    LET nan == isNaN(pipe.gapY) \/ isNaN(pipe.gapHeight)
        upper == IF nan THEN NaN ELSE 2 * pipe.gapY - pipe.gapHeight
        lower == IF nan THEN NaN ELSE 2 * pipe.gapY + pipe.gapHeight
    IN  /\ gt(2 * birdPosition, upper)
        /\ lt(2 * birdPosition, lower)

\* mutant of hasPassed: a collision does not stop the pass from counting
hasPassedDespiteCollision(pipe, passed, newCollided, birdX) ==
    /\ ~passed
    /\ pipe.horizontalPosition + PIPE_WIDTH < birdX

\* mutant of hasPassed: compares the leading edge of the pipe
hasPassedByLeadingEdge(pipe, passed, newCollided, birdX) ==
    /\ ~passed
    /\ ~newCollided
    /\ pipe.horizontalPosition < birdX

hasPassed(pipe, passed, newCollided, birdX) ==
    /\ ~passed
    /\ ~newCollided
    /\ pipe.horizontalPosition + PIPE_WIDTH < birdX

\* mutant of pipeCollision: a pipe that has scored no longer collides
pipeCollisionUnlessPassed(pipe, collided, birdX, birdPosition) ==
    /\ ~collided
    /\ ~pipe.passed
    /\ inXRange(pipe, birdX)
    /\ ~inYGap(pipe, birdPosition)

\* const hasCollision = !collided && inXRange && !inYGap
pipeCollision(pipe, collided, birdX, birdPosition) ==
    ~collided /\ inXRange(pipe, birdX) /\ ~inYGap(pipe, birdPosition)

processPipe(pipe, birdX, birdVelocity, birdPosition) ==
    LET collided == pipe.collided
        passed == pipe.passed
        hasCollision == pipeCollision(pipe, collided, birdX, birdPosition)
        newCollided == collided \/ hasCollision
        hitTop == hasCollision /\ lt(birdPosition, pipe.gapY)
        hitBottom == hasCollision /\ ge(birdPosition, pipe.gapY)
        velocityAdjustment ==
            createRandomVelocity(birdVelocity, hitTop, hitBottom, hasCollision)
        newPassed == passed \/ hasPassed(pipe, passed, newCollided, birdX)
        scoreIncrease ==
            IF hasPassed(pipe, passed, newCollided, birdX) THEN 1 ELSE 0
    IN  [pipe |-> [pipe EXCEPT !.collided = newCollided,
                               !.passed = newPassed,
                               !.horizontalPosition = @ - PIPE_SPEED],
         hitPipe |-> hasCollision,
         scoreIncrease |-> scoreIncrease,
         velocityAdjustment |-> velocityAdjustment]

\* mutant of totalScoreIncrease: one point per tick however many pipes passed
totalScoreIncreaseAny(results) ==
    IF \E i \in 1..Len(results) : results[i].scoreIncrease = 1 THEN 1 ELSE 0

\* results.reduce((sum, result) => sum + result.scoreIncrease, 0)
RECURSIVE totalScoreIncrease(_)
totalScoreIncrease(results) ==
    IF results = << >> THEN 0
    ELSE Head(results).scoreIncrease + totalScoreIncrease(Tail(results))

\* results.reduce((sum, result) => sum + result.velocityAdjustment, 0)
RECURSIVE pipeVelocityAdjustment(_)
pipeVelocityAdjustment(results) ==
    IF results = << >> THEN 0
    ELSE Head(results).velocityAdjustment + pipeVelocityAdjustment(Tail(results))

aggregatePipeResults(results) ==
    [hitPipe |-> \E i \in 1..Len(results) : results[i].hitPipe,
     totalScoreIncrease |-> totalScoreIncrease(results),
     pipeVelocityAdjustment |-> pipeVelocityAdjustment(results)]

\* one CSV record, its three fields in hundredths: gap_y_frac, gap_height_frac
\* (fractions of the canvas height) and time_sec; a field that is not a
\* number is NaN
parsePipeLine(line) ==
    [horizontalPosition |-> CANVAS_WIDTH,
     gapY |-> field(line[1], CANVAS_HEIGHT * Unit, 100),
     gapHeight |-> field(line[2], CANVAS_HEIGHT * Unit, 100),
     time |-> field(line[3], 1000, 100),
     collided |-> FALSE,
     passed |-> FALSE]

(* ------------------------------ state.ts ------------------------------ *)

\* mutant of newPipes: a pipe is dropped once its leading edge is off screen
RECURSIVE newPipesByLeadingEdge(_)
newPipesByLeadingEdge(ps) ==
    IF ps = << >> THEN << >>
    ELSE IF Head(ps).horizontalPosition > 0
         THEN <<Head(ps)>> \o newPipesByLeadingEdge(Tail(ps))
         ELSE newPipesByLeadingEdge(Tail(ps))

\* .filter(p => p.horizontalPosition + Constants.PIPE_WIDTH > 0)
RECURSIVE newPipes(_)
newPipes(ps) ==
    IF ps = << >> THEN << >>
    ELSE IF Head(ps).horizontalPosition + PIPE_WIDTH > 0
         THEN <<Head(ps)>> \o newPipes(Tail(ps))
         ELSE newPipes(Tail(ps))

\* mutant of newLives: one life per kind of hit
newLivesPerHit(st, hitBoundary, hitPipe) ==
    st.lives - (IF hitBoundary THEN 1 ELSE 0) - (IF hitPipe THEN 1 ELSE 0)

\* step 6: update remaining lives
newLives(st, hitBoundary, hitPipe) ==
    LET loseLife == hitBoundary \/ hitPipe
    IN  IF loseLife THEN st.lives - 1 ELSE st.lives

\* mutant of gameEnd: an empty pipe list ends the game before any spawn
gameEndWithoutStarted(st, lives, pipes) ==
    lives <= 0 \/ Len(pipes) = 0

\* mutant of gameEnd: tests the pipes of the state before the filter
gameEndBeforeFilter(st, lives, pipes) ==
    lives <= 0 \/ (st.gameStarted /\ Len(st.pipes) = 0)

\* mutant of gameEnd: running out of pipes does not end the game
gameEndOnLives(st, lives, pipes) == lives <= 0

\* step 7: determine if the game has ended
gameEnd(st, lives, pipes) ==
    lives <= 0 \/ (st.gameStarted /\ Len(pipes) = 0)

\* mutant of hitBoundaryTop: tests the bird's sprite, not its centre line
hitBoundaryTopBySprite(newPosition) == newPosition <= (BIRB_WIDTH * Unit) \div 2

\* step 4: const hitTop = newPosition <= 0
hitBoundaryTop(newPosition) == newPosition <= 0

\* step 4: const hitBottom = newPosition >= Viewport.CANVAS_HEIGHT
hitBoundaryBottom(newPosition) == newPosition >= CANVAS_HEIGHT * Unit

\* mutant of finalPosition: keeps the position the collision tests used
finalPositionIsNew(st, newPosition, finalVelocity) == newPosition

\* step 8: the position after all velocity adjustments
finalPosition(st, newPosition, finalVelocity) ==
    st.bird.verticalPosition + finalVelocity

\* steps 1 to 9 of tick, for a game that has not ended
advance(st) ==
    LET newVelocity == st.bird.verticalVelocity + GRAVITY
        newPosition == st.bird.verticalPosition + newVelocity
        birdX == (CANVAS_WIDTH * 3) \div 10
        pipeResults ==
            [i \in 1..Len(st.pipes) |->
                processPipe(st.pipes[i], birdX, newVelocity, newPosition)]
        kept == newPipes([i \in 1..Len(pipeResults) |-> pipeResults[i].pipe])
        agg == aggregatePipeResults(pipeResults)
        hitTop == hitBoundaryTop(newPosition)
        hitBottom == hitBoundaryBottom(newPosition)
        hasCollision == hitTop \/ hitBottom
        boundaryVelocityAdjustment ==
            createRandomVelocity(newVelocity, hitTop, hitBottom, hasCollision)
        hitBoundary == hitTop \/ hitBottom
        lives == newLives(st, hitBoundary, agg.hitPipe)
        finalVelocity ==
            newVelocity + agg.pipeVelocityAdjustment + boundaryVelocityAdjustment
    IN  [st EXCEPT !.bird = [verticalVelocity |-> finalVelocity,
                             verticalPosition |->
                                 finalPosition(st, newPosition, finalVelocity)],
                   !.pipes = kept,
                   !.lives = lives,
                   !.gameEnd = gameEnd(st, lives, kept),
                   !.score = st.score + agg.totalScoreIncrease,
                   !.gameTime = st.gameTime + TICK_RATE_MS]

\* mutant of tick: no early return for a game that has ended
tickWithoutGuard(st) == advance(st)

tick(st) == IF st.gameEnd THEN st ELSE advance(st)

\* mutant of jump: a game that has ended takes no jump
jumpUnlessEnded(st) ==
    IF st.gameEnd THEN st
    ELSE [st EXCEPT !.bird = [st.bird EXCEPT !.verticalVelocity = STRENGTH]]

jump(st) ==
    [st EXCEPT !.bird = [st.bird EXCEPT !.verticalVelocity = STRENGTH]]

(* ------------------------------- main.ts ------------------------------ *)

\* bounds of the model: ticks per session, sessions per page, and the grid
\* of ticks after which a key press may arrive
MaxTicks == 272
MaxSessions == 2
JumpEvery == 17

\* bounds of the specifications that follow the position recorder and a
\* ghost: the states of a session recorded, and the length of a ghost's path
MaxPath == 40
MaxGhostLen == 4

\* the CSV bodies the page may be given (header line already dropped): each
\* record is <<gap_y_frac, gap_height_frac, time_sec>> in hundredths
Schedules ==
    { << >>,
      <<  <<20, 40, 16>>  >>,
      <<  <<50, 40, 8>>, <<50, 40, 8>>  >>,
      <<  <<45, 30, 5>>, <<80, 20, 80>>  >>,
      <<  <<50, 40, 5>>, <<50, 40, 370>>  >> }

\* CSV bodies with a record that has a field that is not a number
MalformedSchedules ==
    { <<  <<NaN, 40, 8>>  >>,
      <<  <<50, NaN, 8>>  >>,
      <<  <<50, 50, NaN>>  >>,
      <<  <<NaN, NaN, NaN>>, <<50, 40, 8>>  >> }

VARIABLES
    csv,        \* the schedule the page fetched (csv$)
    s,          \* the accumulator of scan: the last state emitted
    prev,       \* the accumulator before the last transform
    last,       \* the last event handled
    active,     \* exhaustMap holds a running session
    ticks,      \* firings of interval(16) in this session
    clock,      \* due time (ms) of the last timer event of this session
    pending,    \* schedule entries whose timer has not fired
    spawnCount, \* per schedule entry: how often its transform was applied
    sessions,   \* sessions started so far
    completed,  \* sessions whose stream has completed
    rec,        \* the position recorder of the sessions is followed
    path,       \* the array path of the running session
    ghost,      \* a subscription of createGhost$(path): what it has emitted
    allGhosts,  \* the array allGhosts: each ghost by the length of its path
    replay      \* the inner subscription of the ghost pipeline's exhaustMap

vars ==
    <<csv, s, prev, last, active, ticks, clock, pending, spawnCount,
      sessions, completed, rec, path, ghost, allGhosts, replay>>

\* createPipeStream$: lines.map(line => parsePipeLine(line))
pipesOf(contents) == [i \in 1..Len(contents) |-> parsePipeLine(contents[i])]

\* mutant of spawn: the new pipe goes to the front of the list
spawnInFront(st, p) ==
    [st EXCEPT !.pipes = <<p>> \o st.pipes, !.gameStarted = TRUE]

\* the reducer createPipeStream$ emits for pipe p
spawn(st, p) == [st EXCEPT !.pipes = Append(st.pipes, p), !.gameStarted = TRUE]

\* the due time of the next firing of interval(TICK_RATE_MS)
NextTickDue == TICK_RATE_MS * (ticks + 1)

\* the due time of timer(p.time) of schedule entry i; a delay of NaN is
\* handed to setInterval, which takes it for 0
timerDue(i) ==
    LET p == pipesOf(csv)[i] IN IF isNaN(p.time) THEN 0 ELSE p.time

\* interval(TICK_RATE_MS) may fire: no timer due earlier is still waiting
tickDue == \A i \in pending : timerDue(i) >= NextTickDue

\* mutant of spawnDue: a timer fires whatever its delay
spawnDueAtOnce(i) == TRUE

\* timer(p.time) of schedule entry i may fire: it is due no later than the
\* next tick, and no timer due before it is waiting.  Timers of equal delay
\* fire in the order they were set (the order of the records).  A timer due
\* at the very instant of a firing of the interval may run before or after
\* it, except at the first firing, where the interval, set first, runs first.
spawnDue(i) ==
    LET due == timerDue(i)
    IN  /\ \/ due < NextTickDue
           \/ due = NextTickDue /\ ticks >= 1
        /\ \A j \in pending \ {i} :
              \/ timerDue(j) > due
              \/ timerDue(j) = due /\ j > i

\* no replay is running
NoReplay == [on |-> FALSE, i |-> 0, fired |-> FALSE, by |-> "none", runs |-> 0]

\* the replay ends (its ghosts are complete, or gameEnd$ has fired):
\* exhaustMap is free again; runs, the replays begun since the session's
\* start, is kept
stopped(r) == [NoReplay EXCEPT !.runs = r.runs]

\* takeUntil(gameEnd$): gameEnd$.next() of the complete handler ends a
\* running replay
takeUntil(r) == stopped(r)

\* the intervals of the ghosts have the period of the session's interval:
\* between two ticks of the session they fire once
ghostInterval(ev) ==
    IF ev = "tick" /\ replay.on THEN [replay EXCEPT !.fired = FALSE] ELSE replay

\* combineLatest(allGhosts) completes when each of its ghosts has: after as
\* many firings as the longest path has entries (at once when there is no
\* ghost)
replayLength(ghosts) ==
    IF ghosts = << >> THEN 0
    ELSE CHOOSE n \in {ghosts[k] : k \in 1..Len(ghosts)} :
             \A k \in 1..Len(ghosts) : ghosts[k] <= n

\* next: state => path.push(state.bird.verticalPosition)
push(state) ==
    IF rec THEN Append(path, state.bird.verticalPosition) ELSE path

\* subscription of state$: the three sources start, startWith emits
\* initialState; the recorder of the session, subscribed first to the shared
\* stream, pushes it onto the new array path
Subscribe ==
    /\ s' = initialState
    /\ prev' = initialState
    /\ ticks' = 0
    /\ clock' = 0
    /\ pending' = 1..Len(csv)
    /\ spawnCount' = [i \in 1..Len(csv) |-> 0]
    /\ path' = IF rec THEN <<initialState.bird.verticalPosition>> ELSE << >>

\* mutant of Emit: no takeWhile, the session goes on after gameEnd
EmitWithoutTakeWhile(next, ev, tw) ==
    /\ rec => Len(path) < MaxPath
    /\ s' = next
    /\ prev' = s
    /\ last' = ev
    /\ path' = push(next)
    /\ replay' = ghostInterval(ev)
    /\ UNCHANGED <<active, completed, allGhosts>>

\* scan applies one reducer to the accumulator and emits the result;
\* takeWhile(state => !state.gameEnd, true), when it is in the pipeline (tw),
\* lets the state through and then completes the session; the recorder
\* pushes the position of every state that gets through (a recorded session
\* is followed for its first MaxPath states)
Emit(next, ev, tw) ==
    /\ rec => Len(path) < MaxPath
    /\ s' = next
    /\ prev' = s
    /\ last' = ev
    /\ path' = push(next)
    /\ active' = IF tw /\ next.gameEnd THEN FALSE ELSE active
    /\ completed' = IF tw /\ next.gameEnd THEN completed + 1 ELSE completed
    /\ replay' = IF tw /\ next.gameEnd
                 THEN takeUntil(replay)
                 ELSE ghostInterval(ev)
    /\ allGhosts' = IF tw /\ next.gameEnd /\ rec
                    THEN Append(allGhosts, Len(push(next)))
                    ELSE allGhosts

\* interval fires and merge passes tick on
Tick(tw) ==
    /\ active
    /\ ticks < MaxTicks
    /\ tickDue
    /\ replay.on => replay.fired
    /\ Emit(tick(s), "tick", tw)
    /\ ticks' = ticks + 1
    /\ clock' = NextTickDue
    /\ UNCHANGED <<csv, pending, spawnCount, sessions, rec, ghost>>

\* the timer of schedule entry i fires and merge passes its reducer on
Spawn(i, tw) ==
    /\ active
    /\ i \in pending
    /\ spawnDue(i)
    /\ Emit(spawn(s, pipesOf(csv)[i]), "spawn", tw)
    /\ clock' = timerDue(i)
    /\ pending' = pending \ {i}
    /\ spawnCount' = [spawnCount EXCEPT ![i] = @ + 1]
    /\ UNCHANGED <<csv, ticks, sessions, rec, ghost>>

\* a Space key press arrives between two timer events
Jump(tw) ==
    /\ active
    /\ ticks % JumpEvery = 0
    /\ Emit(jump(s), "jump", tw)
    /\ UNCHANGED <<csv, ticks, clock, pending, spawnCount, sessions, rec,
                   ghost>>

\* mutant of exhaust: every mousedown subscribes to a new session
exhaustNothing == FALSE

\* exhaustMap: a mousedown is dropped while the inner session is running
exhaust == active

\* the ghost pipeline's exhaustMap on a mousedown: dropped while a replay
\* is running; otherwise combineLatest(allGhosts) is subscribed, which
\* completes at once without ghosts.  The intervals of a replay begun
\* together with a session are set before the session's and fire before it;
\* those of a replay begun between two ticks first fire after the next tick
ghostClick(starts) ==
    IF replay.on \/ replayLength(allGhosts) = 0
    THEN [replay EXCEPT !.runs = IF starts THEN 0 ELSE @]
    ELSE [on |-> TRUE, i |-> 0, fired |-> ~starts,
          by |-> IF starts THEN "start" ELSE "ignored",
          runs |-> IF starts THEN 1 ELSE replay.runs + 1]

\* mousedown on the page: the listener of the ghost pipeline, and that of
\* the main pipeline
Click ==
    IF exhaust
    THEN /\ last' = "ignored"
         /\ replay' = ghostClick(FALSE)
         /\ UNCHANGED <<csv, s, prev, active, ticks, clock, pending,
                        spawnCount, sessions, completed, rec, path, ghost,
                        allGhosts>>
    ELSE /\ sessions < MaxSessions
         /\ replay' = ghostClick(TRUE)
         /\ Subscribe
         /\ last' = "start"
         /\ active' = TRUE
         /\ sessions' = sessions + 1
         /\ UNCHANGED <<csv, completed, rec, ghost, allGhosts>>

\* the intervals of the running replay fire: combineLatest emits the
\* positions, and completes with the last of its ghosts
ReplayTick ==
    /\ replay.on
    /\ ~replay.fired
    /\ replay' = IF replay.i + 1 >= replayLength(allGhosts)
                 THEN stopped(replay)
                 ELSE [replay EXCEPT !.i = @ + 1, !.fired = TRUE]
    /\ UNCHANGED <<csv, s, prev, last, active, ticks, clock, pending,
                   spawnCount, sessions, completed, rec, path, ghost,
                   allGhosts>>

\* no ghost is subscribed
NoGhost == [path |-> << >>, out |-> << >>, done |-> TRUE]

\* the page: csv$ has delivered a schedule, no mousedown yet
Page(schedules, recorded) ==
    /\ csv \in schedules
    /\ s = initialState
    /\ prev = initialState
    /\ last = "init"
    /\ active = FALSE
    /\ ticks = 0
    /\ clock = 0
    /\ pending = {}
    /\ spawnCount = [i \in 1..Len(csv) |-> 0]
    /\ sessions = 0
    /\ completed = 0
    /\ rec = recorded
    /\ path = << >>
    /\ ghost = NoGhost
    /\ allGhosts = << >>
    /\ replay = NoReplay

Init == Page(Schedules, FALSE)

Next ==
    \/ Click
    \/ Tick(TRUE)
    \/ \E i \in 1..Len(csv) : Spawn(i, TRUE)
    \/ Jump(TRUE)

Spec == Init /\ [][Next]_vars

\* schedules of the sessions followed to their end: one pipe, and the same
\* pipe with an entry far behind it
SessionSchedules ==
    { <<  <<50, 40, 5>>  >>,
      <<  <<50, 40, 5>>, <<50, 40, 370>>  >> }

\* createGameSession$(csv) subscribed by the first mousedown
InitSession ==
    /\ csv \in SessionSchedules
    /\ s = initialState
    /\ prev = initialState
    /\ last = "start"
    /\ active = TRUE
    /\ ticks = 0
    /\ clock = 0
    /\ pending = 1..Len(csv)
    /\ spawnCount = [i \in 1..Len(csv) |-> 0]
    /\ sessions = 1
    /\ completed = 0
    /\ rec = FALSE
    /\ path = << >>
    /\ ghost = NoGhost
    /\ allGhosts = << >>
    /\ replay = NoReplay

NextSession ==
    \/ Tick(TRUE)
    \/ \E i \in 1..Len(csv) : Spawn(i, TRUE)
    \/ Jump(TRUE)

\* the session with its timers firing: the interval and the timers of the
\* schedule are set on the event loop, which runs every timer that is due;
\* a key press is up to the player
SpecSession ==
    /\ InitSession
    /\ [][NextSession]_vars
    /\ WF_vars(Tick(TRUE))
    /\ WF_vars(\E i \in 1..Len(csv) : Spawn(i, TRUE))

\* the page given a schedule with a malformed record
InitNaN == Page(MalformedSchedules, FALSE)

SpecNaN == InitNaN /\ [][Next]_vars

\* the page with the position recorder of its sessions followed
InitPath == Page(Schedules, TRUE)

NextPath ==
    \/ Next
    \/ ReplayTick

SpecPath == InitPath /\ [][NextPath]_vars

\* state$ subscribed on its own (it is exported): no takeWhile, no mousedown
InitState ==
    /\ csv \in Schedules
    /\ s = initialState
    /\ prev = initialState
    /\ last = "init"
    /\ active = TRUE
    /\ ticks = 0
    /\ clock = 0
    /\ pending = 1..Len(csv)
    /\ spawnCount = [i \in 1..Len(csv) |-> 0]
    /\ sessions = 1
    /\ completed = 0
    /\ rec = FALSE
    /\ path = << >>
    /\ ghost = NoGhost
    /\ allGhosts = << >>
    /\ replay = NoReplay

NextState ==
    \/ Tick(FALSE)
    \/ \E i \in 1..Len(csv) : Spawn(i, FALSE)
    \/ Jump(FALSE)

SpecState == InitState /\ [][NextState]_vars

\* the absent marker null, and a position v, as a ghost emits them
null == << >>

some(v) == <<v>>

\* map(i => (i < path.length - 1 ? path[i] : null)), for the i-th value of
\* the interval (i counts from 0)
ghostValue(p, i) == IF i < Len(p) - 1 THEN some(p[i + 1]) ELSE null

\* take(path.length) has let count values through: it is complete
taken(p, count) == count >= Len(p)

\* createGhost$(p) subscribed: take(0) completes at once
createGhost(p) == [path |-> p, out |-> << >>, done |-> taken(p, 0)]

\* interval(TICK_RATE_MS) of the ghost fires with the next value i; take
\* lets it through map and completes after the last one
GhostTick ==
    /\ ~ghost.done
    /\ LET i == Len(ghost.out)
       IN  ghost' = [ghost EXCEPT !.out = Append(@, ghostValue(ghost.path, i)),
                                  !.done = taken(ghost.path, i + 1)]
    /\ UNCHANGED <<csv, s, prev, last, active, ticks, clock, pending,
                   spawnCount, sessions, completed, rec, path, allGhosts,
                   replay>>

\* the recorded paths a ghost is built from
GhostPositions ==
    {initialBird.verticalPosition, initialBird.verticalPosition + GRAVITY,
     STRENGTH}

RECURSIVE PathsOfLength(_)
PathsOfLength(n) ==
    IF n = 0 THEN {<< >>}
    ELSE {Append(p, v) : p \in PathsOfLength(n - 1), v \in GhostPositions}

\* a recorded path holds at least the position of the initial state
GhostPaths == UNION {PathsOfLength(n) : n \in 1..MaxGhostLen}

\* one ghost, subscribed on a page at rest
InitGhost ==
    /\ csv = << >>
    /\ s = initialState
    /\ prev = initialState
    /\ last = "init"
    /\ active = FALSE
    /\ ticks = 0
    /\ clock = 0
    /\ pending = {}
    /\ spawnCount = << >>
    /\ sessions = 0
    /\ completed = 0
    /\ rec = FALSE
    /\ path = << >>
    /\ ghost \in {createGhost(p) : p \in GhostPaths}
    /\ allGhosts = << >>
    /\ replay = NoReplay

NextGhost == GhostTick

SpecGhost == InitGhost /\ [][NextGhost]_vars

\* bound of SpecReducer: ticks applied to an input
MaxApply == 2

\* inputs of the reducers taken as functions of any State: birds at and
\* around the edges, pipes before, at and behind the bird
BirdInputs ==
    [verticalPosition : {0, GRAVITY, CANVAS_HEIGHT * Unit - GRAVITY,
                         initialBird.verticalPosition},
     verticalVelocity : {2 * Unit, (-2) * Unit, STRENGTH, 0}]

PipeInputs ==
    [horizontalPosition : {9, 10, 129, 132, 201, CANVAS_WIDTH},
     gapY : {initialBird.verticalPosition},
     gapHeight : {GRAVITY * 2, initialBird.verticalPosition},
     time : {0},
     collided : BOOLEAN,
     passed : BOOLEAN]

PipesInputs ==
    {<< >>} \cup {<<p>> : p \in PipeInputs}
            \cup {<<p, [p EXCEPT !.horizontalPosition = CANVAS_WIDTH]>> :
                     p \in PipeInputs}

ReducerInputs ==
    {[bird |-> b, pipes |-> ps, score |-> 0, lives |-> l, gameEnd |-> e,
      gameTime |-> 0, gameStarted |-> ps # << >>] :
        b \in BirdInputs, ps \in PipesInputs, l \in {1, InitialLives},
        e \in BOOLEAN}

\* state$ with an input state as its accumulator
InitReducer ==
    /\ csv = << >>
    /\ s \in ReducerInputs
    /\ prev = s
    /\ last = "init"
    /\ active = TRUE
    /\ ticks = 0
    /\ clock = 0
    /\ pending = {}
    /\ spawnCount = << >>
    /\ sessions = 1
    /\ completed = 0
    /\ rec = FALSE
    /\ path = << >>
    /\ ghost = NoGhost
    /\ allGhosts = << >>
    /\ replay = NoReplay

NextReducer ==
    \/ ticks < MaxApply /\ Tick(FALSE)
    \/ Jump(FALSE)

SpecReducer == InitReducer /\ [][NextReducer]_vars

(* ------------------------------- claims ------------------------------- *)

Reducers == {"tick", "spawn", "jump"}

\* pipes the last tick filtered out; the retained pipe s.pipes[i] is
\* prev.pipes[i + Dropped]
Dropped == Len(prev.pipes) - Len(s.pipes)

\* the last tick kept the order of the pipes it retained and moved each
Aligned ==
    /\ Dropped >= 0
    /\ \A i \in 1..Len(s.pipes) :
          LET p == prev.pipes[i + Dropped]
              q == s.pipes[i]
          IN  /\ q.gapY = p.gapY /\ q.gapHeight = p.gapHeight /\ q.time = p.time
              /\ q.horizontalPosition = p.horizontalPosition - PIPE_SPEED

\* retained pipes whose collided (passed) flag the last tick turned on
NewlyCollided ==
    {i \in 1..Len(s.pipes) : s.pipes[i].collided /\ ~prev.pipes[i + Dropped].collided}

NewlyPassed ==
    {i \in 1..Len(s.pipes) : s.pipes[i].passed /\ ~prev.pipes[i + Dropped].passed}

\* the position the tick tests against the edges: after gravity
BoundaryHit(st) ==
    LET y == st.bird.verticalPosition + st.bird.verticalVelocity + GRAVITY
    IN  y <= 0 \/ y >= CANVAS_HEIGHT * Unit

\* C1 as stated: once gameEnd is true, tick, jump and the spawn transform
\* each return a state identical to their input.
C1_EveryReducerAbsorbs ==
    last \in Reducers /\ prev.gameEnd => s = prev

\* C1 amended: once gameEnd is true, tick returns a state identical to its
\* input in every field (jump and the spawn transform do not test gameEnd).
C1_TickAbsorbs ==
    last = "tick" /\ prev.gameEnd => s = prev

C1_TickOnEndedState ==
    last = "tick" /\ prev.gameEnd /\ s = prev /\ s.gameTime < TICK_RATE_MS * ticks

\* C2: lives starts at 3 and never increases; jump and spawn leave it
\* unchanged; a tick lowers it by exactly 1 when the bird hits an edge or at
\* least one pipe collides on that tick, however many do, and by 0 otherwise.
C2_LivesRule ==
    /\ last \in {"init", "start"} => s.lives = 3
    /\ s.lives <= prev.lives
    /\ last \in {"jump", "spawn"} => s.lives = prev.lives
    /\ last = "tick" /\ ~prev.gameEnd =>
          /\ Aligned
          /\ s.lives = prev.lives -
                (IF BoundaryHit(prev) \/ NewlyCollided # {} THEN 1 ELSE 0)

C2_TwoPipesOneLife ==
    /\ last = "tick"
    /\ Cardinality(NewlyCollided) >= 2
    /\ s.lives = prev.lives - 1

\* C3: score is never negative and never decreases; jump and spawn leave it
\* unchanged; a tick raises it by exactly the number of pipes whose passed
\* flag that tick turns from false to true.
C3_ScoreRule ==
    /\ s.score >= 0
    /\ s.score >= prev.score
    /\ last \in {"jump", "spawn"} => s.score = prev.score
    /\ last = "tick" /\ ~prev.gameEnd =>
          /\ Aligned
          /\ s.score = prev.score + Cardinality(NewlyPassed)

C3_TwoPipesPassTogether ==
    /\ last = "tick"
    /\ Cardinality(NewlyPassed) = 2
    /\ s.score = prev.score + 2

\* C4: a pipe's collided and passed flags never go back to false, and no
\* tick turns both on for the same pipe: a pipe that collides on a tick on
\* which its trailing edge is already left of the bird does not score.
C4_OneShotFlags ==
    /\ last = "jump" => s.pipes = prev.pipes
    /\ last = "spawn" => SubSeq(s.pipes, 1, Len(prev.pipes)) = prev.pipes
    /\ last = "tick" =>
          /\ Aligned
          /\ \A i \in 1..Len(s.pipes) :
                LET p == prev.pipes[i + Dropped]
                    q == s.pipes[i]
                IN  /\ p.collided => q.collided
                    /\ p.passed => q.passed
                    /\ ~(i \in NewlyCollided /\ i \in NewlyPassed)

C4_CollisionBeatsPass ==
    /\ last = "tick"
    /\ \E i \in NewlyCollided :
          LET p == prev.pipes[i + Dropped]
          IN  /\ ~p.passed
              /\ p.horizontalPosition + PIPE_WIDTH < (CANVAS_WIDTH * 3) \div 10
              /\ ~s.pipes[i].passed
              /\ s.score = prev.score

\* C5: a tick on a state that has not ended sets gameEnd exactly when the
\* lives after the tick are <= 0, or gameStarted is true and the tick's
\* filter retains no pipe.
C5_EndRule ==
    last = "tick" /\ ~prev.gameEnd =>
       (s.gameEnd <=> (s.lives <= 0 \/ (prev.gameStarted /\ s.pipes = << >>)))

C5_LastPipeFilteredOut ==
    /\ last = "tick"
    /\ prev.pipes # << >>
    /\ s.pipes = << >>
    /\ s.lives > 0
    /\ s.gameEnd

\* C6: a session's state sequence ends at, and includes, its first state
\* with gameEnd = true: no tick, spawn or jump is applied to a state that has
\* ended, a running session has not ended, and a session that is over ended
\* on a state with gameEnd = true.
C6_SessionEndsAtFirstEnd ==
    /\ last \in Reducers => ~prev.gameEnd
    /\ active => ~s.gameEnd
    /\ ~active /\ sessions > 0 => s.gameEnd /\ last \in Reducers
    /\ sessions = completed + (IF active THEN 1 ELSE 0)

C6_TerminalStateEmitted ==
    /\ ~active
    /\ last = "tick"
    /\ s.gameEnd
    /\ ~prev.gameEnd
    /\ pending # {}
    /\ completed = sessions

\* C7: at most one session is active at any time; a mousedown while a
\* session is active changes nothing, and a session starts only when every
\* earlier session has completed on its gameEnd state.
C7_OneSessionAtATime ==
    /\ [](sessions - completed \in {0, 1} /\ (active <=> sessions = completed + 1))
    /\ [][/\ last' = "ignored" =>
                /\ active
                /\ UNCHANGED <<csv, s, prev, active, ticks, clock, pending,
                               spawnCount, sessions, completed, path>>
          /\ sessions' # sessions =>
                /\ ~active
                /\ completed = sessions
                /\ sessions = 0 \/ s.gameEnd
                /\ sessions' = sessions + 1
                /\ s' = initialState]_vars

C7_ClickIgnoredInSecondSession ==
    /\ last = "ignored"
    /\ active
    /\ sessions = 2
    /\ completed = 1
    /\ ticks > 0

\* C8 as stated: of a tick and a spawn due at the same instant, the tick is
\* applied first.
C8_TickFirstAtSameInstant ==
    last = "spawn" /\ clock > 0 /\ clock % TICK_RATE_MS = 0
       => TICK_RATE_MS * ticks >= clock

\* C8 amended: the fold applies one transform per event, to the state the
\* previous one produced, and the timer events (ticks and spawns) in the
\* order of their due times: no timer still waiting is due before the last
\* one applied, and none applied was due after it.
C8_OneAtATimeInDueOrder ==
    /\ last = "tick" => s = tick(prev) /\ clock = TICK_RATE_MS * ticks
    /\ last = "jump" => s = jump(prev)
    /\ last = "spawn" =>
          \E i \in 1..Len(csv) :
             s = spawn(prev, pipesOf(csv)[i]) /\ clock = pipesOf(csv)[i].time
    /\ TICK_RATE_MS * ticks <= clock
    /\ clock <= TICK_RATE_MS * (ticks + 1)
    /\ \A i \in 1..Len(csv) :
          IF i \in pending /\ sessions > 0
          THEN pipesOf(csv)[i].time >= clock
          ELSE sessions > 0 => pipesOf(csv)[i].time <= clock

C8_SpawnBeforeTickOfSameInstant ==
    /\ last = "spawn"
    /\ clock = NextTickDue
    /\ active

\* C9: within a session each schedule entry's transform is applied at most
\* once, and has been applied once the running session is past its offset;
\* it appends that entry's pipe (horizontalPosition 600, collided and passed
\* false) to the end of pipes and sets gameStarted, and leaves bird, score,
\* lives, gameEnd and gameTime unchanged.
C9_SpawnOnce ==
    /\ \A i \in 1..Len(csv) : spawnCount[i] <= 1
    /\ active =>
          \A i \in 1..Len(csv) :
             10 * csv[i][3] < TICK_RATE_MS * ticks => spawnCount[i] = 1
    /\ last = "spawn" =>
          /\ \E i \in 1..Len(csv) :
                /\ spawnCount[i] = 1
                /\ s.pipes =
                      Append(prev.pipes,
                             [horizontalPosition |-> 600,
                              gapY |-> 4 * csv[i][1] * Unit,
                              gapHeight |-> 4 * csv[i][2] * Unit,
                              time |-> 10 * csv[i][3],
                              collided |-> FALSE,
                              passed |-> FALSE])
          /\ s.gameStarted
          /\ s.bird = prev.bird
          /\ s.score = prev.score
          /\ s.lives = prev.lives
          /\ s.gameEnd = prev.gameEnd
          /\ s.gameTime = prev.gameTime

C9_SecondPipeAppended ==
    /\ last = "spawn"
    /\ Len(s.pipes) = 2
    /\ s.pipes[1].horizontalPosition < s.pipes[2].horizontalPosition
    /\ \A i \in 1..Len(csv) : spawnCount[i] = 1

\* C10: gameStarted is false until the first spawn of the session and true
\* from it on; tick and jump never change it; no tick ends a game that has
\* not started while lives remain, so with an empty schedule only
\* lives <= 0 ends the game.
C10_GameStarted ==
    /\ s.gameStarted <=> \E i \in 1..Len(csv) : spawnCount[i] > 0
    /\ last \in {"tick", "jump"} => s.gameStarted = prev.gameStarted
    /\ last = "tick" /\ ~prev.gameStarted /\ s.gameEnd /\ ~prev.gameEnd
          => s.lives <= 0
    /\ csv = << >> => ~s.gameStarted /\ (s.gameEnd => s.lives <= 0)

C10_EmptyScheduleRunsOn ==
    /\ csv = << >>
    /\ last = "tick"
    /\ ticks = MaxTicks
    /\ s.pipes = << >>
    /\ ~s.gameStarted
    /\ ~s.gameEnd

\* C11: determinism of the fold compares two runs; the reducers and the
\* knockback are operators here, so it is not stated as a formula.

\* C12 as stated: a ghost built from a recorded path of length N replays all
\* N recorded positions, position[i] at replay tick i for i = 0..N-1, then
\* emits the absent marker once, and emits nothing after that.
C12_ReplaysAllThenNull ==
    /\ \A i \in 1..Len(ghost.out) :
          ghost.out[i] =
             IF i <= Len(ghost.path) THEN some(ghost.path[i]) ELSE null
    /\ Len(ghost.out) <= Len(ghost.path) + 1
    /\ ghost.done => Len(ghost.out) = Len(ghost.path) + 1

\* what the ghost does: N emissions, the first N - 1 recorded positions and
\* then the absent marker in the place of the last one
C12_LastPositionReplaced ==
    /\ ghost.done
    /\ Len(ghost.path) = 3
    /\ ghost.out = <<some(ghost.path[1]), some(ghost.path[2]), null>>
    /\ ghost.path[3] # ghost.path[2]

\* the velocity the last tick added on top of gravity
Knockback == s.bird.verticalVelocity - (prev.bird.verticalVelocity + GRAVITY)

\* the last tick ran on a bird at the top edge (position 0) moving down at 2
TopEdgeMovingDown ==
    /\ last = "tick"
    /\ ~prev.gameEnd
    /\ prev.bird.verticalPosition = 0
    /\ prev.bird.verticalVelocity = 2 * Unit

\* C13 as stated: one tick on a non-ended state whose bird is at position 0
\* with velocity 2 flags a boundary collision: lives decreases by exactly 1
\* and the boundary knockback of that tick is within [5, 10].
C13_EdgeStartCollides ==
    TopEdgeMovingDown /\ NewlyCollided = {} =>
       /\ s.lives = prev.lives - 1
       /\ Knockback >= 5 * Unit
       /\ Knockback <= 10 * Unit

\* C13 amended: the tick tests the position after the move.  From position
\* 0 at velocity 2 the bird moves to 2.4, no boundary collision is flagged,
\* lives is unchanged and no knockback is added; a bird whose position
\* after the move is <= 0 loses exactly one life and gets a knockback
\* within [5, 10].
C13_EdgeTestAfterMove ==
    last = "tick" /\ ~prev.gameEnd /\ NewlyCollided = {} =>
       LET y == prev.bird.verticalPosition + prev.bird.verticalVelocity + GRAVITY
       IN  /\ TopEdgeMovingDown =>
                /\ s.lives = prev.lives
                /\ Knockback = 0
                /\ s.bird = [verticalPosition |-> 2 * Unit + GRAVITY,
                             verticalVelocity |-> 2 * Unit + GRAVITY]
           /\ y <= 0 =>
                /\ s.lives = prev.lives - 1
                /\ Knockback >= 5 * Unit
                /\ Knockback <= 10 * Unit
           /\ y > 0 /\ y < CANVAS_HEIGHT * Unit =>
                /\ s.lives = prev.lives
                /\ Knockback = 0

C13_NoHitFromTopEdge ==
    /\ TopEdgeMovingDown
    /\ s.pipes = << >>
    /\ s.lives = prev.lives
    /\ s.bird.verticalPosition = 2 * Unit + GRAVITY
    /\ ~s.gameEnd

\* C14: jump applies in every state, ended or not: the state it returns has
\* bird.verticalVelocity -7, and the bird's position, pipes, score, lives,
\* gameEnd, gameTime and gameStarted of its input.
C14_JumpFrame ==
    last = "jump" =>
       /\ s.bird.verticalVelocity = (-7) * Unit
       /\ s.bird.verticalPosition = prev.bird.verticalPosition
       /\ s.pipes = prev.pipes
       /\ s.score = prev.score
       /\ s.lives = prev.lives
       /\ s.gameEnd = prev.gameEnd
       /\ s.gameTime = prev.gameTime
       /\ s.gameStarted = prev.gameStarted

C14_JumpOnEndedState ==
    /\ last = "jump"
    /\ prev.gameEnd
    /\ prev.pipes # << >>
    /\ prev.bird.verticalVelocity > 0
    /\ s.bird.verticalVelocity = STRENGTH

\* 0 <= h <= m - 1 for a hash h, which scale maps into [-1, 1]
HashInRange(h) ==
    /\ ~h.neg
    /\ \/ h.hi < Unit * HalfLimb - 1
       \/ h.hi = Unit * HalfLimb - 1 /\ h.lo <= Limb - Unit

Malformed(p) == isNaN(p.gapY) \/ isNaN(p.gapHeight) \/ isNaN(p.time)

NaNGap(p) == isNaN(p.gapY) \/ isNaN(p.gapHeight)

\* C16 as stated: a pipe produced from a malformed record (gapY, gapHeight
\* or spawn time NaN) is inert: it never fires a collision and never scores.
C16_MalformedPipeInert ==
    \A i \in 1..Len(s.pipes) :
       Malformed(s.pipes[i]) => ~s.pipes[i].collided /\ ~s.pipes[i].passed

\* C16 amended: a pipe whose gapY or gapHeight is NaN is never in its gap:
\* it collides on the first tick on which the bird is in its horizontal
\* range, wherever the bird is, costs a life as any collision does, and
\* never scores.  Its knockback is 0 when gapY is NaN and, when only
\* gapHeight is NaN, the usual one by the side of gapY the bird is on.  A
\* record whose spawn time is NaN is spawned at once, before the first tick.
C16_MalformedPipeCollides ==
    /\ \A i \in 1..Len(s.pipes) : NaNGap(s.pipes[i]) => ~s.pipes[i].passed
    /\ last = "spawn" /\ isNaN(s.pipes[Len(s.pipes)].time) =>
          clock = 0 /\ ticks = 0
    /\ last = "tick" /\ ~prev.gameEnd =>
          /\ Aligned
          /\ \A i \in 1..Len(s.pipes) :
                LET p == prev.pipes[i + Dropped]
                IN  NaNGap(p) =>
                       (s.pipes[i].collided <=>
                           \/ p.collided
                           \/ /\ p.horizontalPosition < 201
                              /\ p.horizontalPosition + PIPE_WIDTH > 159)
          /\ NewlyCollided # {} => s.lives = prev.lives - 1
          /\ (~BoundaryHit(prev) /\ \A i \in NewlyCollided : isNaN(s.pipes[i].gapY))
                => Knockback = 0
          /\ \A i \in NewlyCollided :
                (/\ ~BoundaryHit(prev)
                 /\ NewlyCollided = {i}
                 /\ isNaN(s.pipes[i].gapHeight)
                 /\ ~isNaN(s.pipes[i].gapY)) =>
                   LET y == prev.bird.verticalPosition
                            + prev.bird.verticalVelocity + GRAVITY
                   IN  IF y < s.pipes[i].gapY
                       THEN 5 * Unit <= Knockback /\ Knockback <= 10 * Unit
                       ELSE (-10) * Unit <= Knockback /\ Knockback <= (-5) * Unit

C16_MalformedPipeCostsALife ==
    /\ last = "tick"
    /\ \E i \in NewlyCollided : isNaN(s.pipes[i].gapY)
    /\ ~BoundaryHit(prev)
    /\ prev.bird.verticalPosition > CANVAS_HEIGHT
    /\ prev.bird.verticalPosition < CANVAS_HEIGHT * Unit - CANVAS_HEIGHT
    /\ s.lives = prev.lives - 1
    /\ Knockback = 0

\* C17: on each evaluation of a pipe a pass is recorded (scoreIncrease = 1
\* and passed becomes true) if and only if the pipe was not already passed,
\* has not collided on this tick or any earlier one, and its trailing edge
\* (horizontalPosition + 50) is strictly left of the bird's horizontal
\* position; otherwise scoreIncrease = 0.  So a pipe whose trailing edge is
\* already left of the bird scores on the first tick that evaluates it,
\* unless it has collided.
C17_PassRule ==
    last = "tick" /\ ~prev.gameEnd =>
       LET v == prev.bird.verticalVelocity + GRAVITY
           y == prev.bird.verticalPosition + v
       IN  /\ Aligned
           /\ \A i \in 1..Len(s.pipes) :
                 LET p == prev.pipes[i + Dropped]
                     q == s.pipes[i]
                 IN  (i \in NewlyPassed) <=>
                        /\ ~p.passed
                        /\ ~q.collided
                        /\ p.horizontalPosition + 50 < 180
           /\ \A i \in 1..Len(prev.pipes), birdX \in {100, 180} :
                 LET p == prev.pipes[i]
                     r == processPipe(p, birdX, v, y)
                     pass == /\ ~p.passed
                             /\ ~r.pipe.collided
                             /\ p.horizontalPosition + 50 < birdX
                 IN  /\ r.scoreIncrease = IF pass THEN 1 ELSE 0
                     /\ r.pipe.passed = (p.passed \/ pass)

C17_ScoresOnFirstEvaluation ==
    /\ last = "tick"
    /\ ticks = 1
    /\ \E i \in NewlyPassed : prev.pipes[i + Dropped].horizontalPosition = 10
    /\ s.score = prev.score + 1

\* the knockbacks of the pipes I that collided on the last tick, for a bird
\* tested at velocity v and position y
RECURSIVE PipeKnockbacks(_, _, _)
PipeKnockbacks(I, v, y) ==
    IF I = {} THEN 0
    ELSE LET i == CHOOSE j \in I : TRUE
             above == y < s.pipes[i].gapY
         IN  createRandomVelocity(v, above, ~above, TRUE)
             + PipeKnockbacks(I \ {i}, v, y)

\* C18: after a tick on a non-ended state the bird's velocity is (pre-tick
\* velocity + gravity) + the sum of the pipe knockbacks of that tick + the
\* boundary knockback, its position is the pre-tick position plus that
\* final velocity (not the gravity-only position the collision tests use),
\* and gameTime has grown by exactly 16.
C18_FinalBird ==
    last = "tick" /\ ~prev.gameEnd =>
       LET v == prev.bird.verticalVelocity + GRAVITY
           y == prev.bird.verticalPosition + v
           top == y <= 0
           bottom == y >= CANVAS_HEIGHT * Unit
           boundary == createRandomVelocity(v, top, bottom, top \/ bottom)
       IN  /\ Aligned
           /\ s.bird.verticalVelocity =
                 v + PipeKnockbacks(NewlyCollided, v, y) + boundary
           /\ s.bird.verticalPosition =
                 prev.bird.verticalPosition + s.bird.verticalVelocity
           /\ s.gameTime = prev.gameTime + 16

C18_PipeAndBoundaryKnockback ==
    /\ last = "tick"
    /\ NewlyCollided # {}
    /\ BoundaryHit(prev)
    /\ Knockback > 10 * Unit
    /\ s.bird.verticalPosition = prev.bird.verticalPosition + s.bird.verticalVelocity
    /\ s.bird.verticalPosition >
          prev.bird.verticalPosition + prev.bird.verticalVelocity + GRAVITY

\* the pipe p still shows after one more move to the left
StillVisible(p) == p.horizontalPosition - 3 + 50 > 0

\* C19: every pipe of every reachable state has its trailing edge inside
\* the viewport bound (0 < horizontalPosition + 50, horizontalPosition <=
\* 600); a tick moves each pipe left by exactly 3 whether or not it
\* collided, keeps the order of the pipes it retains, and drops exactly the
\* pipes whose trailing edge is then <= 0.
C19_PipeLifecycle ==
    /\ \A i \in 1..Len(s.pipes) :
          /\ 0 < s.pipes[i].horizontalPosition + 50
          /\ s.pipes[i].horizontalPosition <= 600
    /\ last = "tick" /\ ~prev.gameEnd =>
          LET kept == SelectSeq(prev.pipes, StillVisible)
          IN  /\ Len(s.pipes) = Len(kept)
              /\ \A i \in 1..Len(kept) :
                    /\ s.pipes[i].horizontalPosition
                          = kept[i].horizontalPosition - 3
                    /\ s.pipes[i].gapY = kept[i].gapY
                    /\ s.pipes[i].gapHeight = kept[i].gapHeight
                    /\ s.pipes[i].time = kept[i].time

C19_FirstPipeDropped ==
    /\ last = "tick"
    /\ Len(prev.pipes) = 2
    /\ Len(s.pipes) = 1
    /\ ~StillVisible(prev.pipes[1])
    /\ s.pipes[1].time = prev.pipes[2].time
    /\ s.pipes[1].time # prev.pipes[1].time
    /\ s.pipes[1].collided
    /\ ~s.gameEnd

\* C20 as stated: the position trace recorded for a session holds exactly
\* one bird position per tick of that session: its length is the number of
\* ticks applied, and entry i is the bird's position after tick i; jump and
\* spawn events add no entries.
C20_OnePositionPerTick ==
    rec /\ sessions > 0 =>
       /\ Len(path) = ticks
       /\ last = "tick" => path[ticks] = s.bird.verticalPosition

\* what the recorder holds when a session completes: the position of every
\* state the session emitted, the initial state and the states after spawns
\* and jumps included
C20_EveryEmittedStateRecorded ==
    /\ rec
    /\ ~active
    /\ completed = 1
    /\ s.gameEnd
    /\ path[1] = initialState.bird.verticalPosition
    /\ path[Len(path)] = s.bird.verticalPosition
    /\ Len(path) > ticks + 2
    /\ \E i \in 2..Len(path) : path[i] = path[i - 1]

\* C21: a pipe that has already scored can still collide later.  A tick on
\* which a pipe that is passed and not yet collided has the bird inside its
\* horizontal range and outside its gap sets collided and costs a life,
\* and the pipe keeps passed = true; the state with both flags true is
\* reached in play (C21_ScoredThenCollided).
C21_PassedPipeStillCollides ==
    last = "tick" /\ ~prev.gameEnd =>
       LET y == prev.bird.verticalPosition + prev.bird.verticalVelocity + GRAVITY
       IN  /\ Aligned
           /\ \A i \in 1..Len(s.pipes) :
                 LET p == prev.pipes[i + Dropped]
                 IN  (/\ p.passed
                      /\ ~p.collided
                      /\ p.horizontalPosition < 201
                      /\ p.horizontalPosition + 50 > 159
                      /\ \/ 2 * y <= 2 * p.gapY - p.gapHeight
                         \/ 2 * y >= 2 * p.gapY + p.gapHeight)
                     => /\ s.pipes[i].passed
                        /\ s.pipes[i].collided
                        /\ s.lives = prev.lives - 1

C21_ScoredThenCollided ==
    /\ last = "tick"
    /\ \E i \in NewlyCollided :
          /\ prev.pipes[i + Dropped].passed
          /\ s.pipes[i].passed
          /\ s.pipes[i].collided
    /\ prev.score >= 1
    /\ s.lives = prev.lives - 1

\* C22 as stated: a session never ends with lives > 0 while schedule
\* entries are still waiting to spawn: a tick sets gameEnd through the
\* empty-pipes condition only after every scheduled pipe of the session has
\* been spawned, for any spacing of the spawn offsets.
C22_EndsOnlyWhenAllSpawned ==
    s.gameEnd /\ s.lives > 0 => pending = {}

\* the game ends on the tick that drops the first pipe, before the timer of
\* the second schedule entry has fired
C22_EndedWithEntryPending ==
    /\ last = "tick"
    /\ ~prev.gameEnd
    /\ s.gameEnd
    /\ s.lives = InitialLives
    /\ s.pipes = << >>
    /\ pending = {2}
    /\ spawnCount = <<1, 0>>
    /\ ~active

\* the tick by which the pipe of schedule entry i has left the screen: it
\* is first moved on the tick after its timer and filtered out by the
\* 217th move, 600 + 50 - 3 * 217 being the first trailing edge <= 0
OffScreenTick(i) ==
    timerDue(i) \div TICK_RATE_MS
       + (CANVAS_WIDTH + PIPE_WIDTH + PIPE_SPEED - 1) \div PIPE_SPEED

\* C23: every session with a non-empty, well-formed schedule eventually
\* ends: with the timers firing, whatever the player does, the session
\* reaches a state with gameEnd = true, and a session that has spawned a
\* pipe is no longer running on the tick by which every pipe it has
\* spawned has scrolled off the screen.
C23_SessionEnds ==
    /\ [](active /\ s.gameStarted =>
             \E i \in 1..Len(csv) : i \notin pending /\ ticks < OffScreenTick(i))
    /\ (active /\ csv # << >>) ~> (~active /\ s.gameEnd)

C23_EndedWhenLastPipeLeft ==
    /\ ~active
    /\ last = "tick"
    /\ s.gameEnd
    /\ s.lives > 0
    /\ Len(csv) = 1
    /\ pending = {}
    /\ ticks = OffScreenTick(1)

\* C24: ghost replay is tied to session start: a running replay was begun
\* by the mousedown that started the running session, at most one replay is
\* begun per session, none by a mousedown that arrives while a session is
\* active, and no replay outlives the session's game-end signal.
C24_ReplayTiedToSessionStart ==
    /\ replay.on => active /\ replay.by = "start"
    /\ replay.runs <= 1

C24_ReplayBegunMidSession ==
    /\ active
    /\ last = "ignored"
    /\ replay.on
    /\ replay.by = "ignored"
    /\ replay.i = 0
    /\ replay.runs = 2
    /\ sessions = 2

=============================================================================
